---- MODULE Spec2Model ----
(***************************************************************************)
(* A model of static/script.js, the browser-side chat client.              *)
(*                                                                         *)
(* JavaScript strings are sequences of one-character strings, so that      *)
(* matching, stripping, padding and escaping are computed character by     *)
(* character.  A string literal of the script that is only ever            *)
(* concatenated is kept as one element (<<"Error: ">> \o detail).  The     *)
(* values null and undefined are one-element sequences whose element is    *)
(* not a character, so they differ from every string.                      *)
(***************************************************************************)
EXTENDS Integers, Sequences, FiniteSets, TLC

VARIABLES
    kbName,           \* the argument extractKbDigits is applied to
    kbOut,            \* its result, Unset before the call
    annSources,       \* data.sources handed to the source block of sendQuestion
    annRaw,           \* rawName of each record, in input order
    annNames,         \* names, the deduplicated display names
    annMeta,          \* metaHtml, the rendered sources
    chat,             \* the children of chatEl: the messages pushed
    questionValue,    \* questionInput.value
    questionDisabled, \* questionInput.disabled
    sendDisabled,     \* sendBtn.disabled
    chat_history,     \* chat_history: the [question, answer] pairs
    queries,          \* the sendQuestion calls waiting at an await
    reindexes,        \* the reindex handler calls waiting at an await
    reindexDisabled,  \* reindexBtn.disabled
    reindexText,      \* reindexBtn.innerText
    pingPc,           \* where the start-up ping's promise chain is
    fileLink,         \* fileLinkEl.innerText
    selectedFiles,    \* selectedFiles
    realFileInput,    \* the files held by realFileInput
    fileChips,        \* fileChips: its display and its chips
    popShow,          \* uploadPop has the class "show"
    ariaHidden,       \* uploadPop's aria-hidden attribute
    uploads,          \* the upload handler calls waiting at an await
    uploadDisabled,   \* uploadNow.disabled
    uploadText,       \* uploadNow.innerText
    uploadResult      \* uploadResult: its display and its text

kbVars == <<kbName, kbOut>>

annVars == <<annSources, annRaw, annNames, annMeta>>

pureVars == <<kbVars, annVars>>

vars ==
    <<kbName, kbOut, annSources, annRaw, annNames, annMeta,
      chat, questionValue, questionDisabled, sendDisabled, chat_history, queries,
      reindexes, reindexDisabled, reindexText, pingPc, fileLink,
      selectedFiles, realFileInput, fileChips, popShow, ariaHidden,
      uploads, uploadDisabled, uploadText, uploadResult>>

(***************************************************************************)
(* JavaScript values                                                       *)
(***************************************************************************)
Null == <<"#null">>

Undefined == <<"#undefined">>

Unset == <<"#unset">>

EmptyStr == <<>>

IsString(v) == v \notin {Null, Undefined, Unset}

\* ToBoolean on the values of the model: null, undefined and "" are falsy.
Truthy(v) == v \notin {Null, Undefined, EmptyStr}

\* a || b
JsOr(a, b) == IF Truthy(a) THEN a ELSE b

Max(a, b) == IF a >= b THEN a ELSE b

\* n copies of the character c
Repeat(c, n) == [i \in 1..n |-> c]

\* the sequences over S of length n or less
RECURSIVE SeqsUpTo(_, _)
SeqsUpTo(S, n) ==
    IF n = 0 THEN {<<>>}
    ELSE LET shorter == SeqsUpTo(S, n - 1)
         IN  shorter \cup {Append(t, x) : t \in {u \in shorter : Len(u) = n - 1}, x \in S}

Digits == {"0", "1", "2", "3", "4", "5", "6", "7", "8", "9"}

IsDigit(c) == c \in Digits

(***************************************************************************)
(* extractKbDigits: /KB[_\-]?(\d{3,})/i, strip leading zeros, padStart(9)  *)
(***************************************************************************)
\* \d{3,}: the least number of digits of the captured run
MinDigits == 3

\* padStart(9, "0"): the target length
PadWidth == 9

\* \d* is greedy: the position after the longest run of digits starting at j
RECURSIVE DigitRunEnd(_, _)
DigitRunEnd(s, j) ==
    IF j <= Len(s) /\ IsDigit(s[j]) THEN DigitRunEnd(s, j + 1) ELSE j

\* CaptureAt with the quantifier {2,} in place of {3,}
CaptureAtTwoDigits(s, j) ==
    LET e == DigitRunEnd(s, j)
    IN  IF e - j >= MinDigits - 1 THEN SubSeq(s, j, e - 1) ELSE Null

\* (\d{3,}) tried at position j: the captured run, or Null when it fails
CaptureAt(s, j) ==
    LET e == DigitRunEnd(s, j)
    IN  IF e - j >= MinDigits THEN SubSeq(s, j, e - 1) ELSE Null

\* the whole pattern tried at position i: KB, then [_\-]? greedy with
\* backtracking to the empty separator, then the capture group
MatchAt(s, i) ==
    IF i + 1 <= Len(s) /\ s[i] \in {"K", "k"} /\ s[i + 1] \in {"B", "b"}
    THEN LET withSep == IF i + 2 <= Len(s) /\ s[i + 2] \in {"_", "-"}
                        THEN CaptureAt(s, i + 3)
                        ELSE Null
         IN  IF withSep # Null THEN withSep ELSE CaptureAt(s, i + 2)
    ELSE Null

\* String.prototype.match without the g flag: the match at the least index
RECURSIVE MatchFrom(_, _)
MatchFrom(s, i) ==
    IF i > Len(s) THEN Null
    ELSE LET m == MatchAt(s, i)
         IN  IF m # Null THEN m ELSE MatchFrom(s, i + 1)

\* m[1].replace(/^0+/, "")
RECURSIVE StripLeadingZeros(_)
StripLeadingZeros(d) ==
    IF d # <<>> /\ Head(d) = "0" THEN StripLeadingZeros(Tail(d)) ELSE d

\* raw.padStart(n, "0"): no truncation when raw is already n long or longer
PadStart(raw, n) == Repeat("0", Max(0, n - Len(raw))) \o raw

extractKbDigits(filename) ==
    IF ~Truthy(filename) \/ ~IsString(filename) THEN Null
    ELSE LET m == MatchFrom(filename, 1)
         IN  IF m = Null THEN Null
             ELSE PadStart(JsOr(StripLeadingZeros(m), m), PadWidth)

(***************************************************************************)
(* sendQuestion, lines 166-209: the sources of an answer                   *)
(***************************************************************************)
\* a source record; an absent key reads as undefined
Rec(a, b, c, d) ==
    [object |-> TRUE, source |-> a, title |-> b, file |-> c, filename |-> d]

\* null in place of a record
NullRecord ==
    [object |-> FALSE, source |-> Undefined, title |-> Undefined,
     file |-> Undefined, filename |-> Undefined]

\* data.sources: an array of records, or anything that is not an array
ArrayOf(items) == [isArray |-> TRUE, items |-> items]

NotAnArray == [isArray |-> FALSE, items |-> <<>>]

\* rawNameOf with title preferred to source
rawNameTitleFirst(s) ==
    JsOr(IF s.object
         THEN JsOr(JsOr(JsOr(s.title, s.source), s.file), s.filename)
         ELSE Null,
         EmptyStr)

\* (s && (s.source || s.title || s.file || s.filename)) || ""
rawNameOf(s) ==
    JsOr(IF s.object
         THEN JsOr(JsOr(JsOr(s.source, s.title), s.file), s.filename)
         ELSE Null,
         EmptyStr)

\* the rawName of every record, in the order forEach visits them
rawNames(items) == [i \in 1..Len(items) |-> rawNameOf(items[i])]

\* dedupeStep without the seen test: every name is pushed
dedupeStepNoSeen(acc, rawName) ==
    [seen |-> acc.seen \cup {rawName}, names |-> Append(acc.names, rawName)]

\* one iteration of data.sources.forEach: if (!seen.has(rawName)) { add; push }
dedupeStep(acc, rawName) ==
    IF rawName \notin acc.seen
    THEN [seen |-> acc.seen \cup {rawName}, names |-> Append(acc.names, rawName)]
    ELSE acc

\* the loop over the first n records
RECURSIVE dedupeLoop(_, _)
dedupeLoop(items, n) ==
    IF n = 0 THEN [seen |-> {}, names |-> <<>>]
    ELSE dedupeStep(dedupeLoop(items, n - 1), rawNameOf(items[n]))

dedupeNames(items) == dedupeLoop(items, Len(items)).names

Letters ==
    {"a","b","c","d","e","f","g","h","i","j","k","l","m",
     "n","o","p","q","r","s","t","u","v","w","x","y","z",
     "A","B","C","D","E","F","G","H","I","J","K","L","M",
     "N","O","P","Q","R","S","T","U","V","W","X","Y","Z"}

\* the characters encodeURIComponent leaves alone
UriUnreserved == Letters \cup Digits \cup {"-", "_", ".", "!", "~", "*", "'", "(", ")"}

\* the percent escape of a character outside UriUnreserved
PercentEscape(c) ==
    CASE c = " " -> <<"%", "2", "0">>
      [] c = "<" -> <<"%", "3", "C">>
      [] c = ">" -> <<"%", "3", "E">>
      [] c = "&" -> <<"%", "2", "6">>
      [] c = "\"" -> <<"%", "2", "2">>
      [] OTHER -> <<"%", c>>

RECURSIVE encodeURIComponent(_)
encodeURIComponent(s) ==
    IF s = <<>> THEN <<>>
    ELSE (IF Head(s) \in UriUnreserved THEN <<Head(s)>> ELSE PercentEscape(Head(s)))
         \o encodeURIComponent(Tail(s))

\* the five replacements of escapeHtml, on one character
HtmlEscape(c) ==
    CASE c = "&" -> <<"&", "a", "m", "p", ";">>
      [] c = "<" -> <<"&", "l", "t", ";">>
      [] c = ">" -> <<"&", "g", "t", ";">>
      [] c = "\"" -> <<"&", "q", "u", "o", "t", ";">>
      [] c = "'" -> <<"&", "#", "0", "3", "9", ";">>
      [] OTHER -> <<c>>

RECURSIVE escapeChars(_)
escapeChars(s) ==
    IF s = <<>> THEN <<>> ELSE HtmlEscape(Head(s)) \o escapeChars(Tail(s))

escapeHtml(unsafe) == IF ~IsString(unsafe) THEN EmptyStr ELSE escapeChars(unsafe)

ViewUrlPrefix == <<"https://resource.digital.thermofisher.com/kb/article.aspx?n=">>

DownloadUrlPrefix == <<"/download_kb?kb=">>

\* one iteration of names.forEach: the source-item div of one name
sourceItem(nm) ==
    LET padded == extractKbDigits(nm)
    IN  IF Truthy(padded)
        THEN [link |-> TRUE,
              href |-> ViewUrlPrefix \o encodeURIComponent(padded),
              download |-> DownloadUrlPrefix \o encodeURIComponent(padded),
              text |-> escapeHtml(IF Truthy(nm) THEN nm ELSE <<"KB Article">>)]
        ELSE [link |-> FALSE, href |-> Null, download |-> Null,
              text |-> escapeHtml(JsOr(nm, <<"unknown">>))]

\* no meta argument: pushMessage(role, text)
NoMeta == [kind |-> "null", items |-> <<>>]

\* metaHtml as sendQuestion builds it from data.sources
sourcesMeta(sources) ==
    IF sources.isArray /\ Len(sources.items) > 0
    THEN LET names == dedupeNames(sources.items)
         IN  IF Len(names) > 0
             THEN [kind |-> "sources",
                   items |-> [i \in 1..Len(names) |-> sourceItem(names[i])]]
             ELSE [kind |-> "empty", items |-> <<>>]
    ELSE [kind |-> "nosources", items |-> <<>>]

(***************************************************************************)
(* The page: pushMessage, the start-up ping, sendQuestion, reindex         *)
(***************************************************************************)
chatVars == <<chat, questionValue, questionDisabled, sendDisabled, chat_history, queries>>

reindexVars == <<reindexes, reindexDisabled, reindexText>>

pingVars == <<pingPc, fileLink>>

fileVars == <<selectedFiles, realFileInput, fileChips>>

popVars == <<popShow, ariaHidden>>

uploadVars == <<uploads, uploadDisabled, uploadText, uploadResult>>

uiVars == <<chatVars, reindexVars, pingVars, fileVars, popVars, uploadVars>>

\* s without its element at index i
RemoveAt(s, i) == SubSeq(s, 1, i - 1) \o SubSeq(s, i + 1, Len(s))

WhiteSpace == {" ", "\t", "\n"}

RECURSIVE TrimStart(_)
TrimStart(s) == IF s # <<>> /\ Head(s) \in WhiteSpace THEN TrimStart(Tail(s)) ELSE s

RECURSIVE TrimEnd(_)
TrimEnd(s) ==
    IF s # <<>> /\ s[Len(s)] \in WhiteSpace THEN TrimEnd(SubSeq(s, 1, Len(s) - 1)) ELSE s

\* String.prototype.trim
Trim(s) == TrimEnd(TrimStart(s))

\* the wrapper pushMessage appends: the role class, the bubble text and the
\* meta element, which is created only for a truthy meta
Message(role, text, meta) ==
    [role |-> IF role = "user" THEN "user" ELSE "assistant",
     text |-> text,
     meta |-> IF meta.kind \in {"null", "empty"} THEN NoMeta ELSE meta]

\* chatEl after pushMessage(role, text, meta)
pushMessage(role, text, meta) == chat' = Append(chat, Message(role, text, meta))

\* the initial assistance message (line 43; its dash is written - here)
Greeting ==
    <<"Hi, I am Charlie, Your Chromeleon AI Assistant - ask me anything about Chromeleon. Use the + to attach files for indexing.">>

\* the fallback of data.answer (line 164; its dash is written - here)
DefaultAnswer == <<"I don't know - not in the documents.">>

\* String(err) of the errors the handlers catch
FetchError == <<"TypeError: Failed to fetch">>

JsonError == <<"SyntaxError: Unexpected token">>

NullBodyError == <<"TypeError: Cannot read properties of null">>

\* the parsed body of an /api/query response: an object, or null
QueryData(e, d, a, s, f) ==
    [object |-> TRUE, error |-> e, detail |-> d, answer |-> a, sources |-> s, file_url |-> f]

NullData ==
    [object |-> FALSE, error |-> Undefined, detail |-> Undefined, answer |-> Undefined,
     sources |-> NotAnArray, file_url |-> Undefined]

\* messages the calls in flight are still to push, plus the ones pushed
\* after the greeting
Planned == (Len(chat) - 1) + Len(queries) + Len(reindexes)

\* the finally block of sendQuestion
sendFinally ==
    /\ questionDisabled' = FALSE
    /\ sendDisabled' = FALSE

\* sendQuestion that sends the question without showing it
sendQuestionNoUserMessage(cap) ==
    LET q == Trim(questionValue)
    IN  IF ~Truthy(q)
        THEN UNCHANGED chatVars
        ELSE /\ Planned + 2 <= cap
             /\ questionValue' = EmptyStr
             /\ questionDisabled' = TRUE
             /\ sendDisabled' = TRUE
             /\ queries' = Append(queries, [pc |-> "fetch", q |-> q, payload |-> chat_history])
             /\ UNCHANGED <<chat, chat_history>>

\* sendQuestion up to its first await (lines 145-160)
sendQuestion(cap) ==
    LET q == Trim(questionValue)
    IN  IF ~Truthy(q)
        THEN UNCHANGED chatVars
        ELSE /\ Planned + 2 <= cap
             /\ pushMessage("user", q, NoMeta)
             /\ questionValue' = EmptyStr
             /\ questionDisabled' = TRUE
             /\ sendDisabled' = TRUE
             /\ queries' = Append(queries, [pc |-> "fetch", q |-> q, payload |-> chat_history])
             /\ UNCHANGED chat_history

\* the user edits the question field
TypeQuestion(v) ==
    /\ ~questionDisabled
    /\ questionValue # v
    /\ questionValue' = v
    /\ UNCHANGED <<chat, questionDisabled, sendDisabled, chat_history, queries>>
    /\ UNCHANGED <<reindexVars, pingVars, fileVars, popVars, uploadVars, pureVars>>

\* a click on sendBtn: sendQuestion, then the document listener, for which
\* the button is outside the popover
SendClick(cap) ==
    /\ ~sendDisabled
    /\ sendQuestion(cap)
    /\ popShow' = FALSE
    /\ UNCHANGED <<ariaHidden, reindexVars, pingVars, fileVars, uploadVars, pureVars>>

\* Enter in the question field
EnterKey(cap) ==
    /\ ~questionDisabled
    /\ sendQuestion(cap)
    /\ UNCHANGED <<reindexVars, pingVars, fileVars, popVars, uploadVars, pureVars>>

\* fetch("/api/query") of call i resolves with a response
QueryFetchResolve(i) ==
    /\ i \in 1..Len(queries)
    /\ queries[i].pc = "fetch"
    /\ queries' = [queries EXCEPT ![i].pc = "json"]
    /\ UNCHANGED <<chat, questionValue, questionDisabled, sendDisabled, chat_history>>
    /\ UNCHANGED <<reindexVars, pingVars, fileVars, popVars, uploadVars, pureVars>>

\* sendCatch that reports the failure and sends the request again
sendCatchRetry(i, err) ==
    /\ pushMessage("assistant", <<"Error calling backend: ">> \o err, NoMeta)
    /\ sendFinally
    /\ queries' = [queries EXCEPT ![i].pc = "fetch"]
    /\ UNCHANGED <<questionValue, chat_history>>

\* the catch block of sendQuestion, then finally
sendCatch(i, err) ==
    /\ pushMessage("assistant", <<"Error calling backend: ">> \o err, NoMeta)
    /\ sendFinally
    /\ queries' = RemoveAt(queries, i)
    /\ UNCHANGED <<questionValue, chat_history>>

\* fetch of call i rejects: a transport failure
QueryFetchReject(i, err) ==
    /\ i \in 1..Len(queries)
    /\ queries[i].pc = "fetch"
    /\ sendCatch(i, err)
    /\ UNCHANGED <<reindexVars, pingVars, fileVars, popVars, uploadVars, pureVars>>

\* resp.json() of call i rejects: the body is not JSON
QueryJsonReject(i, err) ==
    /\ i \in 1..Len(queries)
    /\ queries[i].pc = "json"
    /\ sendCatch(i, err)
    /\ UNCHANGED <<reindexVars, pingVars, fileVars, popVars, uploadVars, pureVars>>

\* errorText with error preferred to detail
errorTextErrorFirst(data) == <<"Error: ">> \o JsOr(data.error, data.detail)

\* "Error: " + (data.detail || data.error)
errorText(data) == <<"Error: ">> \o JsOr(data.detail, data.error)

\* answerOf without the fallback
answerOfNoDefault(data) == IF IsString(data.answer) THEN data.answer ELSE EmptyStr

\* data.answer || "I don't know ..."
answerOf(data) == JsOr(data.answer, DefaultAnswer)

\* sendThen that records the turn of an error response as well
sendThenAlwaysRecords(i, data) ==
    IF Truthy(data.error)
    THEN /\ pushMessage("assistant", errorText(data), NoMeta)
         /\ chat_history' = Append(chat_history, <<queries[i].q, errorText(data)>>)
    ELSE /\ pushMessage("assistant", answerOf(data), sourcesMeta(data.sources))
         /\ chat_history' = Append(chat_history, <<queries[i].q, answerOf(data)>>)

\* lines 161-216 for call i, then finally
sendThen(i, data) ==
    IF Truthy(data.error)
    THEN /\ pushMessage("assistant", errorText(data), NoMeta)
         /\ UNCHANGED chat_history
    ELSE /\ pushMessage("assistant", answerOf(data), sourcesMeta(data.sources))
         /\ chat_history' = Append(chat_history, <<queries[i].q, answerOf(data)>>)

\* resp.json() of call i resolves with data; reading data.error of null
\* throws into the catch block
QueryJsonResolve(i, data) ==
    /\ i \in 1..Len(queries)
    /\ queries[i].pc = "json"
    /\ IF data.object
       THEN /\ sendThen(i, data)
            /\ sendFinally
            /\ queries' = RemoveAt(queries, i)
            /\ UNCHANGED questionValue
       ELSE sendCatch(i, NullBodyError)
    /\ UNCHANGED <<reindexVars, pingVars, fileVars, popVars, uploadVars, pureVars>>

\* the start-up ping (lines 47-56): fetch resolves
PingFetchResolve ==
    /\ pingPc = "fetch"
    /\ pingPc' = "json"
    /\ UNCHANGED <<fileLink, chatVars, reindexVars, fileVars, popVars, uploadVars, pureVars>>

\* fetch or r.json() rejects: .catch sets "none"
PingReject ==
    /\ pingPc \in {"fetch", "json"}
    /\ pingPc' = "done"
    /\ fileLink' = <<"none">>
    /\ UNCHANGED <<chatVars, reindexVars, fileVars, popVars, uploadVars, pureVars>>

\* r.json() resolves with d: d.file_url || "none"; a null d throws into .catch
PingJsonResolve(d) ==
    /\ pingPc = "json"
    /\ pingPc' = "done"
    /\ fileLink' = IF d.object THEN JsOr(d.file_url, <<"none">>) ELSE <<"none">>
    /\ UNCHANGED <<chatVars, reindexVars, fileVars, popVars, uploadVars, pureVars>>

(***************************************************************************)
(* JSON bodies: JSON.parse and JSON.stringify                              *)
(***************************************************************************)
\* a JSON document: an object given by its key/value pairs, or null
JsonObject(pairs) == [object |-> TRUE, pairs |-> pairs]

JsonNull == [object |-> FALSE, pairs |-> <<>>]

Quote(s) == <<"\"", s, "\"">>

RECURSIVE JoinPairs(_, _, _)
JoinPairs(pairs, colon, comma) ==
    IF pairs = <<>> THEN <<>>
    ELSE Quote(Head(pairs)[1]) \o colon \o Quote(Head(pairs)[2])
         \o (IF Tail(pairs) = <<>> THEN <<>> ELSE comma \o JoinPairs(Tail(pairs), colon, comma))

\* JSON.stringify(v)
Stringify(v) ==
    IF ~v.object THEN <<"null">>
    ELSE <<"{">> \o JoinPairs(v.pairs, <<":">>, <<",">>) \o <<"}">>

\* JSON.stringify(v, null, 2)
StringifyIndented(v) ==
    IF ~v.object THEN <<"null">>
    ELSE IF v.pairs = <<>> THEN <<"{", "}">>
    ELSE <<"{", "\n", "  ">> \o JoinPairs(v.pairs, <<":", " ">>, <<",", "\n", "  ">>)
         \o <<"\n", "}">>

\* the documents a backend body may hold
JsonDocs ==
    { JsonNull,
      JsonObject(<<>>),
      JsonObject(<<<<"status", "ok">>>>),
      JsonObject(<<<<"status", "busy">>>>),
      JsonObject(<<<<"detail", "too large">>>>),
      JsonObject(<<<<"status", "ok">>, <<"indexed", "2">>>>) }

\* a body that is no JSON text
HtmlBody == <<"<html>", "502 Bad Gateway", "</html>">>

\* the JSON texts of a document: without white space, and indented by two
TextsOf(v) == {Stringify(v), StringifyIndented(v)}

JsonParses(text) == \E v \in JsonDocs : text \in TextsOf(v)

\* resp.json() on a body that parses
JsonParse(text) == CHOOSE v \in JsonDocs : text \in TextsOf(v)

\* data.status
StatusOf(v) ==
    IF \E k \in 1..Len(v.pairs) : v.pairs[k][1] = "status"
    THEN v.pairs[CHOOSE k \in 1..Len(v.pairs) : v.pairs[k][1] = "status"][2]
    ELSE "#undefined"

(***************************************************************************)
(* Reindex                                                                 *)
(***************************************************************************)
\* the click handler that leaves the button enabled
ReindexClickNoDisable(cap) ==
    /\ ~reindexDisabled
    /\ Planned + 1 <= cap
    /\ reindexText' = "Reindexing..."
    /\ reindexes' = Append(reindexes, [pc |-> "fetch"])
    /\ popShow' = FALSE
    /\ UNCHANGED <<reindexDisabled, ariaHidden, chatVars, pingVars, fileVars, uploadVars, pureVars>>

\* a click on reindexBtn (lines 243-247), then the document listener
ReindexClick(cap) ==
    /\ ~reindexDisabled
    /\ Planned + 1 <= cap
    /\ reindexDisabled' = TRUE
    /\ reindexText' = "Reindexing..."
    /\ reindexes' = Append(reindexes, [pc |-> "fetch"])
    /\ popShow' = FALSE
    /\ UNCHANGED <<ariaHidden, chatVars, pingVars, fileVars, uploadVars, pureVars>>

ReindexFetchResolve(i) ==
    /\ i \in 1..Len(reindexes)
    /\ reindexes[i].pc = "fetch"
    /\ reindexes' = [reindexes EXCEPT ![i].pc = "json"]
    /\ UNCHANGED <<reindexDisabled, reindexText>>
    /\ UNCHANGED <<chatVars, pingVars, fileVars, popVars, uploadVars, pureVars>>

\* the finally block of the reindex handler
reindexFinally(i) ==
    /\ reindexDisabled' = FALSE
    /\ reindexText' = "Reindex"
    /\ reindexes' = RemoveAt(reindexes, i)

reindexCatch(i, err) ==
    /\ pushMessage("assistant", <<"Reindex failed: ">> \o err, NoMeta)
    /\ reindexFinally(i)

ReindexFetchReject(i, err) ==
    /\ i \in 1..Len(reindexes)
    /\ reindexes[i].pc = "fetch"
    /\ reindexCatch(i, err)
    /\ UNCHANGED <<questionValue, questionDisabled, sendDisabled, chat_history, queries>>
    /\ UNCHANGED <<pingVars, fileVars, popVars, uploadVars, pureVars>>

ReindexJsonReject(i, err) ==
    /\ i \in 1..Len(reindexes)
    /\ reindexes[i].pc = "json"
    /\ reindexCatch(i, err)
    /\ UNCHANGED <<questionValue, questionDisabled, sendDisabled, chat_history, queries>>
    /\ UNCHANGED <<pingVars, fileVars, popVars, uploadVars, pureVars>>

\* resp.json() resolves with data; reading data.status of null throws
ReindexJsonResolve(i, data) ==
    /\ i \in 1..Len(reindexes)
    /\ reindexes[i].pc = "json"
    /\ IF ~data.object THEN reindexCatch(i, NullBodyError)
       ELSE /\ IF StatusOf(data) = "ok"
               THEN pushMessage("assistant", <<"Reindex completed successfully.">>, NoMeta)
               ELSE pushMessage("assistant", <<"Reindex response: ">> \o Stringify(data), NoMeta)
            /\ reindexFinally(i)
    /\ UNCHANGED <<questionValue, questionDisabled, sendDisabled, chat_history, queries>>
    /\ UNCHANGED <<pingVars, fileVars, popVars, uploadVars, pureVars>>

(***************************************************************************)
(* The attach popover, the file chooser and the upload                     *)
(***************************************************************************)
\* the toggle of the attach button (lines 59-65); the keydown handler of
\* lines 268-273 calls attachBtn.click()
attachToggle ==
    /\ popShow' = ~popShow
    /\ ariaHidden' = IF ~popShow THEN "false" ELSE "true"

AttachClick ==
    /\ attachToggle
    /\ UNCHANGED <<chatVars, reindexVars, pingVars, fileVars, uploadVars, pureVars>>

AttachKeydown ==
    /\ attachToggle
    /\ UNCHANGED <<chatVars, reindexVars, pingVars, fileVars, uploadVars, pureVars>>

\* a click outside the popover and the attach button (lines 261-265)
DocumentClick ==
    /\ popShow' = FALSE
    /\ UNCHANGED <<ariaHidden, chatVars, reindexVars, pingVars, fileVars, uploadVars, pureVars>>

\* the length above which a chip shortens the file name
ChipMaxLen == 20

\* the characters a shortened chip keeps
ChipKeepLen == 18

chipText(name) ==
    IF Len(name) > ChipMaxLen THEN SubSeq(name, 1, ChipKeepLen) \o <<"...">> ELSE name

\* fileChips after renderChips() on the selection sel
renderChips(sel) ==
    fileChips' = [display |-> IF Len(sel) = 0 THEN "none" ELSE "flex",
                  chips |-> [k \in 1..Len(sel) |-> chipText(sel[k])]]

\* the change event of realFileInput
FileChange(files) ==
    /\ files # realFileInput
    /\ selectedFiles' = files
    /\ realFileInput' = files
    /\ renderChips(files)
    /\ UNCHANGED <<chatVars, reindexVars, pingVars, popVars, uploadVars, pureVars>>

\* a click on clearFiles
ClearClick ==
    /\ selectedFiles' = <<>>
    /\ realFileInput' = <<>>
    /\ renderChips(<<>>)
    /\ UNCHANGED <<chatVars, reindexVars, pingVars, popVars, uploadVars, pureVars>>

\* UploadClick that sends whatever is selected, nothing included
UploadClickNoGuard ==
    /\ ~uploadDisabled
    /\ uploadDisabled' = TRUE
    /\ uploadText' = "Working..."
    /\ uploadResult' = [uploadResult EXCEPT !.display = "none"]
    /\ uploads' = Append(uploads, [pc |-> "fetch", form |-> selectedFiles, ok |-> FALSE])
    /\ UNCHANGED <<chatVars, reindexVars, pingVars, fileVars, popVars, pureVars>>

\* a click on uploadNow (lines 97-108); with nothing selected it alerts and
\* returns
UploadClick ==
    /\ ~uploadDisabled
    /\ IF Len(selectedFiles) = 0
       THEN UNCHANGED uploadVars
       ELSE /\ uploadDisabled' = TRUE
            /\ uploadText' = "Working..."
            /\ uploadResult' = [uploadResult EXCEPT !.display = "none"]
            /\ uploads' = Append(uploads, [pc |-> "fetch", form |-> selectedFiles, ok |-> FALSE])
    /\ UNCHANGED <<chatVars, reindexVars, pingVars, fileVars, popVars, pureVars>>

\* fetch("/upload") resolves with a response of status class ok
UploadFetchResolve(i, ok) ==
    /\ i \in 1..Len(uploads)
    /\ uploads[i].pc = "fetch"
    /\ uploads' = [uploads EXCEPT ![i].pc = "json", ![i].ok = ok]
    /\ UNCHANGED <<uploadDisabled, uploadText, uploadResult>>
    /\ UNCHANGED <<chatVars, reindexVars, pingVars, fileVars, popVars, pureVars>>

\* the finally block of the upload handler
uploadFinally(i) ==
    /\ uploadDisabled' = FALSE
    /\ uploadText' = "Upload & Index"
    /\ uploads' = RemoveAt(uploads, i)

\* uploadCatch whose finally block is skipped
uploadCatchNoFinally(i, err) ==
    /\ uploadResult' = [display |-> "block", text |-> <<"Upload error: ">> \o err]
    /\ uploads' = RemoveAt(uploads, i)
    /\ UNCHANGED <<uploadDisabled, uploadText>>

\* the catch block of the upload handler, then finally
uploadCatch(i, err) ==
    /\ uploadResult' = [display |-> "block", text |-> <<"Upload error: ">> \o err]
    /\ uploadFinally(i)

UploadFetchReject(i, err) ==
    /\ i \in 1..Len(uploads)
    /\ uploads[i].pc = "fetch"
    /\ uploadCatch(i, err)
    /\ UNCHANGED <<chatVars, reindexVars, pingVars, fileVars, popVars, pureVars>>

\* resp.json() rejects on a body that is no JSON text
UploadJsonReject(i, body) ==
    /\ i \in 1..Len(uploads)
    /\ uploads[i].pc = "json"
    /\ ~JsonParses(body)
    /\ uploadCatch(i, JsonError)
    /\ UNCHANGED <<chatVars, reindexVars, pingVars, fileVars, popVars, pureVars>>

\* failedText that shows the body as it came
failedTextOfBody(body) == <<"Upload failed: ">> \o body

\* "Upload failed: " + JSON.stringify(data, null, 2), data parsed from body
failedText(body) == <<"Upload failed: ">> \o StringifyIndented(JsonParse(body))

\* resp.json() resolves (lines 109-124), then finally
UploadJsonResolve(i, body) ==
    /\ i \in 1..Len(uploads)
    /\ uploads[i].pc = "json"
    /\ JsonParses(body)
    /\ IF ~uploads[i].ok
       THEN /\ uploadResult' = [display |-> "block", text |-> failedText(body)]
            /\ UNCHANGED <<fileVars, popVars>>
       ELSE /\ uploadResult' =
                   [display |-> "block",
                    text |-> <<"Indexing result:\n">> \o StringifyIndented(JsonParse(body))]
            /\ selectedFiles' = <<>>
            /\ realFileInput' = <<>>
            /\ renderChips(<<>>)
            /\ popShow' = FALSE
            /\ UNCHANGED ariaHidden
    /\ uploadFinally(i)
    /\ UNCHANGED <<chatVars, reindexVars, pingVars, pureVars>>

(***************************************************************************)
(* The page after the script has run                                       *)
(***************************************************************************)
UiInit ==
    /\ chat = <<Message("assistant", Greeting, NoMeta)>>
    /\ questionValue = EmptyStr
    /\ questionDisabled = FALSE
    /\ sendDisabled = FALSE
    /\ chat_history = <<>>
    /\ queries = <<>>
    /\ reindexes = <<>>
    /\ reindexDisabled = FALSE
    /\ reindexText = "Reindex"
    /\ pingPc = "fetch"
    /\ fileLink = EmptyStr
    /\ selectedFiles = <<>>
    /\ realFileInput = <<>>
    /\ fileChips = [display |-> "", chips |-> <<>>]
    /\ popShow = FALSE
    /\ uploads = <<>>
    /\ uploadDisabled = FALSE
    /\ uploadText = "Upload & Index"
    /\ uploadResult = [display |-> "", text |-> EmptyStr]

(***************************************************************************)
(* Inputs of the source block                                              *)
(***************************************************************************)
\* the longest data.sources array
MaxSources == 3

nameA == <<"A">>

nameB == <<"B">>

nameKb == <<"K", "B", "_", "0", "0", "7">>

nameLongKb == <<"k", "b", "7", "7", "7", "7", "7", "7", "7", "7", "7", "7">>

nameMarkup == <<"<", "b", ">", "&">>

\* every combination of absent, null, empty and named keys
RichRecords ==
    {Rec(a, b, c, d) :
        a \in {Undefined, Null, EmptyStr, nameA},
        b \in {Undefined, EmptyStr, nameB},
        c \in {Undefined, Null, nameKb},
        d \in {Undefined, EmptyStr, nameMarkup}}

\* the records arrays are built from
ArrayRecords ==
    { Rec(nameA, Undefined, Undefined, Undefined),
      Rec(Undefined, nameA, Undefined, Undefined),
      Rec(nameA, nameB, Undefined, Undefined),
      Rec(Undefined, Undefined, nameB, Undefined),
      Rec(Undefined, Undefined, Undefined, Undefined),
      Rec(nameKb, nameA, Undefined, Undefined),
      Rec(Undefined, Undefined, Undefined, nameLongKb),
      Rec(EmptyStr, nameMarkup, Undefined, Undefined),
      NullRecord }

AnnInputs ==
    {ArrayOf(items) : items \in SeqsUpTo(ArrayRecords, MaxSources)}
    \cup {ArrayOf(<<r>>) : r \in RichRecords}
    \cup {NotAnArray}

\* the source block has not run
AnnIdle ==
    /\ annSources = NotAnArray
    /\ annRaw = Unset
    /\ annNames = Unset
    /\ annMeta = NoMeta

InitAnn ==
    /\ annSources \in AnnInputs
    /\ annRaw = Unset
    /\ annNames = Unset
    /\ annMeta = NoMeta
    /\ kbName = Null
    /\ kbOut = Unset
    /\ UiInit
    /\ ariaHidden = "true"

\* lines 168-209 on annSources
BuildSources ==
    /\ annNames = Unset
    /\ annRaw' = rawNames(annSources.items)
    /\ annNames' = dedupeNames(annSources.items)
    /\ annMeta' = sourcesMeta(annSources)
    /\ UNCHANGED <<annSources, kbVars, uiVars>>

NextAnn == BuildSources

SpecAnn == InitAnn /\ [][NextAnn]_vars

(***************************************************************************)
(* Inputs of extractKbDigits                                               *)
(***************************************************************************)
\* the longest digit run put after a KB marker
MaxDigits == 10

\* the longest digit run enumerated over both digits
MaxMixed == 4

\* zeros, then sevens, then zeros, and every short run over 0 and 7
KbRuns ==
    {Repeat("0", a) \o Repeat("7", b) \o Repeat("0", c) :
        a \in 0..MaxDigits, b \in 0..MaxDigits, c \in 0..MaxDigits}
    \cup SeqsUpTo({"0", "7"}, MaxMixed)

KbPrefixes == {<<>>, <<"x">>, <<"K", "B", "_", "7", "0">>, <<"k", "B", "-", "_">>}

KbMarkers == {<<"K", "B">>, <<"k", "b">>, <<"K", "b">>, <<"K">>, <<"B", "K">>}

KbSeparators == {<<>>, <<"_">>, <<"-">>, <<"_", "-">>, <<" ">>}

KbSuffixes == {<<>>, <<".", "p", "d", "f">>, <<"K", "B", "7", "7", "7">>}

KbExamples ==
    { <<"K","B","_","0","0","0","1","2","3","4","5","6",".","p","d","f">>,
      <<"k","b","-","4","2",".","t","x","t">>,
      <<"n","o"," ","i","d"," ","h","e","r","e">>,
      <<"K","B","0","0","0","0","0","0","0">> }

KbInputs ==
    {p \o k \o sp \o r \o x :
        p \in KbPrefixes, k \in KbMarkers, sp \in KbSeparators,
        r \in {d \in KbRuns : Len(d) <= MaxDigits}, x \in KbSuffixes}
    \cup KbExamples \cup {Null, Undefined, EmptyStr}

InitKb ==
    /\ kbName \in KbInputs
    /\ kbOut = Unset
    /\ AnnIdle
    /\ UiInit
    /\ ariaHidden = "true"

\* one call of extractKbDigits
CallExtractKbDigits ==
    /\ kbOut = Unset
    /\ kbOut' = extractKbDigits(kbName)
    /\ UNCHANGED <<kbName, annVars, uiVars>>

NextKb == CallExtractKbDigits

SpecKb == InitKb /\ [][NextKb]_vars

(***************************************************************************)
(* Inputs of the page                                                      *)
(***************************************************************************)
\* messages pushed after the greeting, all requests together
MaxChat == 2

\* messages pushed after the greeting, the chat alone
MaxChatLong == 4

fileA == <<"a", ".", "p", "d", "f">>

fileLong == Repeat("n", ChipMaxLen + 1)

recordKb == Rec(nameKb, Undefined, Undefined, Undefined)

recordA == Rec(nameA, Undefined, Undefined, Undefined)

recordTitleA == Rec(Undefined, nameA, Undefined, Undefined)

QuestionsLite == {<<" ">>, <<"q">>}

Questions == {<<" ">>, <<" ", "q", "\n">>}

QueryDataLite ==
    { QueryData(<<"e">>, Undefined, Undefined, NotAnArray, Undefined),
      QueryData(Undefined, Undefined, <<"a">>, NotAnArray, Undefined) }

\* responses with an error: every kind of detail, with and without an answer
QueryDataErrors ==
    {QueryData(<<"e">>, d, as[1], as[2], Undefined) :
        d \in {Undefined, EmptyStr, <<"d">>},
        as \in {<<Undefined, NotAnArray>>, <<(<<"a">>), ArrayOf(<<recordKb>>)>>}}

\* responses without error (absent or empty): every kind of answer and sources
QueryDataAnswers ==
    {QueryData(Undefined, Undefined, a, s, Undefined) :
        a \in {Undefined, EmptyStr, <<"a">>},
        s \in {NotAnArray, ArrayOf(<<>>), ArrayOf(<<recordKb>>),
               ArrayOf(<<recordA, NullRecord, recordTitleA>>)}}
    \cup {QueryData(EmptyStr, <<"d">>, a, s, Undefined) :
        a \in {Undefined, <<"a">>}, s \in {NotAnArray, ArrayOf(<<>>)}}

QueryDataAll == QueryDataErrors \cup QueryDataAnswers \cup {NullData}

PingData ==
    { NullData,
      QueryData(Undefined, Undefined, Undefined, NotAnArray, Undefined),
      QueryData(Undefined, Undefined, Undefined, NotAnArray, <<"u">>) }

ReindexDocsLite == {JsonObject(<<<<"status", "ok">>>>)}

UploadBodiesLite == {Stringify(JsonObject(<<>>))}

UploadBodies == UNION {TextsOf(v) : v \in JsonDocs} \cup {HtmlBody}

SelectionsLite == {<<>>, <<fileA>>}

Selections == {<<>>, <<fileA>>, <<fileLong>>, <<fileA, fileLong>>}

\* the pure operators are not being applied
PureIdle ==
    /\ kbName = Null
    /\ kbOut = Unset
    /\ AnnIdle

\* the markup sets aria-hidden on the popover, or leaves it out
AriaInit == ariaHidden \in {"true", "#absent"}

Init == UiInit /\ AriaInit /\ PureIdle

\* every event of the page, with the small inputs
Next ==
    \/ \E v \in QuestionsLite : TypeQuestion(v)
    \/ SendClick(MaxChat)
    \/ EnterKey(MaxChat)
    \/ \E i \in 1..Len(queries) : QueryFetchResolve(i)
    \/ \E i \in 1..Len(queries) : QueryFetchReject(i, FetchError)
    \/ \E i \in 1..Len(queries) : QueryJsonReject(i, JsonError)
    \/ \E i \in 1..Len(queries), d \in QueryDataLite : QueryJsonResolve(i, d)
    \/ PingFetchResolve
    \/ PingReject
    \/ \E d \in PingData : PingJsonResolve(d)
    \/ ReindexClick(MaxChat)
    \/ \E i \in 1..Len(reindexes) : ReindexFetchResolve(i)
    \/ \E i \in 1..Len(reindexes) : ReindexFetchReject(i, FetchError)
    \/ \E i \in 1..Len(reindexes) : ReindexJsonReject(i, JsonError)
    \/ \E i \in 1..Len(reindexes), d \in ReindexDocsLite : ReindexJsonResolve(i, d)
    \/ AttachClick
    \/ AttachKeydown
    \/ DocumentClick
    \/ \E f \in SelectionsLite : FileChange(f)
    \/ ClearClick
    \/ UploadClick
    \/ \E i \in 1..Len(uploads), ok \in BOOLEAN : UploadFetchResolve(i, ok)
    \/ \E i \in 1..Len(uploads) : UploadFetchReject(i, FetchError)
    \/ \E i \in 1..Len(uploads) : UploadJsonReject(i, HtmlBody)
    \/ \E i \in 1..Len(uploads), b \in UploadBodiesLite : UploadJsonResolve(i, b)

Spec == Init /\ [][Next]_vars

\* the chat alone: questions, answers and reindex messages, every response
NextChat ==
    \/ \E v \in Questions : TypeQuestion(v)
    \/ SendClick(MaxChatLong)
    \/ EnterKey(MaxChatLong)
    \/ \E i \in 1..Len(queries) : QueryFetchResolve(i)
    \/ \E i \in 1..Len(queries) : QueryFetchReject(i, FetchError)
    \/ \E i \in 1..Len(queries) : QueryJsonReject(i, JsonError)
    \/ \E i \in 1..Len(queries), d \in QueryDataAll : QueryJsonResolve(i, d)
    \/ ReindexClick(MaxChatLong)
    \/ \E i \in 1..Len(reindexes) : ReindexFetchResolve(i)
    \/ \E i \in 1..Len(reindexes) : ReindexFetchReject(i, FetchError)
    \/ \E i \in 1..Len(reindexes) : ReindexJsonReject(i, JsonError)
    \/ \E i \in 1..Len(reindexes), d \in JsonDocs : ReindexJsonResolve(i, d)

InitChat == UiInit /\ ariaHidden = "true" /\ PureIdle

SpecChat == InitChat /\ [][NextChat]_vars

\* the popover alone: the file chooser and the upload, every body
NextUpload ==
    \/ AttachClick
    \/ AttachKeydown
    \/ DocumentClick
    \/ \E f \in Selections : FileChange(f)
    \/ ClearClick
    \/ UploadClick
    \/ \E i \in 1..Len(uploads), ok \in BOOLEAN : UploadFetchResolve(i, ok)
    \/ \E i \in 1..Len(uploads) : UploadFetchReject(i, FetchError)
    \/ \E i \in 1..Len(uploads), b \in UploadBodies : UploadJsonReject(i, b)
    \/ \E i \in 1..Len(uploads), b \in UploadBodies : UploadJsonResolve(i, b)

SpecUpload == Init /\ [][NextUpload]_vars

(***************************************************************************)
(* C1, C2: the display names of an answer's sources                        *)
(***************************************************************************)
\* the index of the first element of s equal to x
FirstIndex(s, x) == CHOOSE i \in 1..Len(s) : s[i] = x /\ \A j \in 1..(i - 1) : s[j] # x

\* C1: the list of display names has no two equal entries, holds exactly the
\* display names of the input records, in the order of their first
\* occurrence, and is no longer than the input.
C1_DedupFirstOccurrence ==
    annNames # Unset =>
        /\ \A i, j \in 1..Len(annNames) : i # j => annNames[i] # annNames[j]
        /\ {annNames[i] : i \in 1..Len(annNames)} = {annRaw[i] : i \in 1..Len(annRaw)}
        /\ \A i, j \in 1..Len(annNames) :
               i < j => FirstIndex(annRaw, annNames[i]) < FirstIndex(annRaw, annNames[j])
        /\ Len(annNames) <= Len(annSources.items)
        /\ Len(annRaw) = Len(annSources.items)

\* [{source: "A"}, {source: "A", title: "B"}, {file: "B"}]: the second record
\* named A is dropped although its title differs, and B is kept after A
C1_Witness ==
    /\ annSources = ArrayOf(<<Rec(nameA, Undefined, Undefined, Undefined),
                              Rec(nameA, nameB, Undefined, Undefined),
                              Rec(Undefined, Undefined, nameB, Undefined)>>)
    /\ annNames = <<nameA, nameB>>

\* the keys of a record in priority order
KeyValues(r) == <<r.source, r.title, r.file, r.filename>>

\* the value of the first key of r whose value is not in skipped, "" when
\* there is none or r is null
FirstKey(r, skipped) ==
    LET kv == KeyValues(r)
        ok == {k \in 1..Len(kv) : kv[k] \notin skipped}
    IN  IF ~r.object \/ ok = {} THEN EmptyStr
        ELSE kv[CHOOSE k \in ok : \A m \in ok : k <= m]

\* C2 as claimed: the display name is the value of the first key among
\* source, title, file, filename that is present and non-null, so that
\* source = "" with title = "A" gives ""; "" when no key is present or the
\* record is null.
C2_FirstNonNullKey ==
    annRaw # Unset =>
        \A i \in 1..Len(annRaw) :
            annRaw[i] = FirstKey(annSources.items[i], {Undefined, Null})

\* C2 as amended: the display name is the value of the first key among
\* source, title, file, filename whose value is present, non-null and not
\* the empty string; "" when no key has such a value or the record is null.
C2_FirstNonEmptyKey ==
    annRaw # Unset =>
        \A i \in 1..Len(annRaw) :
            annRaw[i] = FirstKey(annSources.items[i], {Undefined, Null, EmptyStr})

\* an empty source is passed over for the title, and a null record gives ""
C2_Witness ==
    /\ annSources = ArrayOf(<<Rec(EmptyStr, nameMarkup, Undefined, Undefined), NullRecord>>)
    /\ annRaw = <<nameMarkup, EmptyStr>>

(***************************************************************************)
(* C3, C4: extractKbDigits                                                 *)
(***************************************************************************)
\* the pattern occurs at index i of s: K, B, at most one separator, 3 digits
KbOccursAt(s, i) ==
    \E k \in {0, 1} :
        /\ i + 1 + k + MinDigits <= Len(s)
        /\ s[i] \in {"K", "k"}
        /\ s[i + 1] \in {"B", "b"}
        /\ k = 1 => s[i + 2] \in {"_", "-"}
        /\ \A j \in 1..MinDigits : IsDigit(s[i + 1 + k + j])

\* the maximal digit run of s that starts at index a
MaximalRun(s, a) ==
    LET e == CHOOSE x \in a..Len(s) :
                 /\ \A j \in a..x : IsDigit(s[j])
                 /\ x = Len(s) \/ ~IsDigit(s[x + 1])
    IN  SubSeq(s, a, e)

\* run without its leading zeros, or run itself when it is all zeros
WithoutLeadingZeros(run) ==
    LET z == CHOOSE n \in 0..Len(run) :
                 /\ \A j \in 1..n : run[j] = "0"
                 /\ n = Len(run) \/ run[n + 1] # "0"
    IN  IF z = Len(run) THEN run ELSE SubSeq(run, z + 1, Len(run))

\* what the claim says extractKbDigits(name) is
KbIdOf(name) ==
    IF ~IsString(name) \/ name = EmptyStr THEN Null
    ELSE LET occ == {i \in 1..Len(name) : KbOccursAt(name, i)}
         IN  IF occ = {} THEN Null
             ELSE LET first == CHOOSE i \in occ : \A j \in occ : i <= j
                      a == IF IsDigit(name[first + 2]) THEN first + 2 ELSE first + 3
                      d == WithoutLeadingZeros(MaximalRun(name, a))
                  IN  IF Len(d) >= PadWidth THEN d
                      ELSE [i \in 1..PadWidth |->
                               IF i <= PadWidth - Len(d) THEN "0"
                               ELSE d[i - (PadWidth - Len(d))]]

\* C3: extractKbDigits(name) is null when name is empty, not a string or has
\* no occurrence of KB, at most one of _ and -, and 3 or more digits;
\* otherwise it is the maximal digit run of the leftmost occurrence, without
\* its leading zeros (the run itself when all zeros), left-padded with 0 to
\* 9 characters; the three examples of the claim give the stated results.
C3_ExtractKbDigits ==
    kbOut # Unset =>
        /\ kbOut = KbIdOf(kbName)
        /\ kbName = <<"K","B","_","0","0","0","1","2","3","4","5","6",".","p","d","f">>
               => kbOut = <<"0","0","0","1","2","3","4","5","6">>
        /\ kbName = <<"k","b","-","4","2",".","t","x","t">> => kbOut = Null
        /\ kbName = <<"K","B","0","0","0","0","0","0","0">>
               => kbOut = <<"0","0","0","0","0","0","0","0","0">>

\* a first occurrence with too few digits is passed over, the second one is
\* matched, its leading zeros are stripped and the rest is padded
C3_Witness ==
    /\ kbName = <<"K","B","_","7","0","K","b","-","0","0","7","7","0",".","p","d","f">>
    /\ kbOut = <<"0","0","0","0","0","0","7","7","0">>

\* C4: the result of extractKbDigits is null or exactly 9 decimal digits.
C4_ExactlyNineDigits ==
    kbOut \notin {Unset, Null} =>
        /\ Len(kbOut) = PadWidth
        /\ \A i \in 1..Len(kbOut) : IsDigit(kbOut[i])

(***************************************************************************)
(* C5: the links of a display name                                         *)
(***************************************************************************)
\* C5: a name has a view link and a download link exactly when its KB id
\* is not null; the links are the two prefixes followed by that id, which is
\* 9 digits long; a name without KB id is plain text, "unknown" when empty.
C5_LinksIffKbId ==
    (annNames # Unset /\ annMeta.kind = "sources") =>
        /\ Len(annMeta.items) = Len(annNames)
        /\ \A i \in 1..Len(annNames) :
               LET nm == annNames[i]
                   it == annMeta.items[i]
                   id == KbIdOf(nm)
               IN  IF id # Null
                   THEN /\ it.link
                        /\ it.href = ViewUrlPrefix \o id
                        /\ it.download = DownloadUrlPrefix \o id
                        /\ Len(id) = PadWidth
                   ELSE /\ ~it.link
                        /\ it.href = Null
                        /\ it.download = Null
                        /\ it.text = IF nm = EmptyStr THEN <<"unknown">> ELSE escapeHtml(nm)

(***************************************************************************)
(* C6, C7: controls and requests in flight                                 *)
(***************************************************************************)
\* C6: the control of each user action is disabled exactly while a request
\* it issued has not settled: from the click to the settlement it is
\* disabled (for ever, if the request never settles) and every settlement,
\* by a response, an unparsable body or a transport failure, enables it again.
C6_DisabledWhileInFlight ==
    /\ sendDisabled = (Len(queries) > 0)
    /\ questionDisabled = (Len(queries) > 0)
    /\ uploadDisabled = (Len(uploads) > 0)
    /\ reindexDisabled = (Len(reindexes) > 0)

\* an upload failed in transport and its button is enabled again, while a
\* question is in flight with its controls disabled
C6_Witness ==
    /\ uploads = <<>>
    /\ uploadResult.text = <<"Upload error: ">> \o FetchError
    /\ ~uploadDisabled
    /\ Len(queries) = 1 /\ sendDisabled /\ questionDisabled
    /\ reindexes = <<>> /\ ~reindexDisabled

\* the requests to /api/query that have not settled: those of sendQuestion
\* and the start-up ping
ApiQueryInFlight == Len(queries) + (IF pingPc \in {"fetch", "json"} THEN 1 ELSE 0)

StartsWith(s, p) == Len(s) > 1 /\ s[1] = p

\* chat' is chat with one assistant message, without sources, appended
OneAssistantMessage(text) ==
    chat' = Append(chat, [role |-> "assistant", text |-> text, meta |-> NoMeta])

\* C8: a response with a non-empty error field gives exactly one assistant
\* message, "Error: " and then detail when there is a (non-empty) detail and
\* error otherwise, without answer or sources, and chat_history stays; a
\* transport failure or an unparsable body gives exactly one assistant
\* message that begins "Error calling backend: ", and chat_history stays.
C8_ErrorsReported ==
    [][ /\ \A i \in 1..Len(queries), d \in QueryDataAll :
              (/\ Len(queries') < Len(queries)
               /\ d.object /\ d.error \notin {Undefined, Null, EmptyStr}
               /\ QueryJsonResolve(i, d))
              => /\ OneAssistantMessage(
                        <<"Error: ">> \o
                        (IF d.detail \notin {Undefined, Null, EmptyStr} THEN d.detail ELSE d.error))
                 /\ chat_history' = chat_history
        /\ \A i \in 1..Len(queries) :
              (QueryFetchReject(i, FetchError) \/ QueryJsonReject(i, JsonError))
              => /\ \E e \in {FetchError, JsonError} :
                        OneAssistantMessage(<<"Error calling backend: ">> \o e)
                 /\ StartsWith(chat'[Len(chat')].text, "Error calling backend: ")
                 /\ chat_history' = chat_history
      ]_vars

\* the answer to the first question was an error with a detail
C8_Witness ==
    /\ Len(chat) = 3
    /\ chat[3] = [role |-> "assistant", text |-> <<"Error: ", "d">>, meta |-> NoMeta]
    /\ chat_history = <<>>
    /\ queries = <<>>

\* C9: a response without error whose answer is missing or empty shows the
\* default answer and records it in chat_history; one whose sources are
\* missing, not an array or empty carries the "No sources returned." notice;
\* neither is reported as an error.
C9_DefaultsForMissingFields ==
    [][ \A i \in 1..Len(queries), d \in QueryDataAll :
            (/\ Len(queries') < Len(queries)
             /\ d.object /\ d.error \in {Undefined, Null, EmptyStr}
             /\ QueryJsonResolve(i, d))
            => LET last == chat'[Len(chat')]
               IN  /\ Len(chat') = Len(chat) + 1
                   /\ SubSeq(chat', 1, Len(chat)) = chat
                   /\ last.role = "assistant"
                   /\ ~StartsWith(last.text, "Error: ")
                   /\ ~StartsWith(last.text, "Error calling backend: ")
                   /\ Len(chat_history') = Len(chat_history) + 1
                   /\ d.answer \in {Undefined, Null, EmptyStr}
                          => /\ last.text = DefaultAnswer
                             /\ chat_history' =
                                    Append(chat_history, <<queries[i].q, DefaultAnswer>>)
                   /\ d.answer \notin {Undefined, Null, EmptyStr}
                          => /\ last.text = d.answer
                             /\ chat_history' = Append(chat_history, <<queries[i].q, d.answer>>)
                   /\ (~d.sources.isArray \/ d.sources.items = <<>>)
                          => last.meta = [kind |-> "nosources", items |-> <<>>]
      ]_vars

\* the first question was answered without answer and without sources
C9_Witness ==
    /\ Len(chat) = 3
    /\ chat[3] = [role |-> "assistant", text |-> DefaultAnswer,
                  meta |-> [kind |-> "nosources", items |-> <<>>]]
    /\ chat_history = <<<<<<"q">>, DefaultAnswer>>>>

(***************************************************************************)
(* C10: an upload answered with a non-2xx status                           *)
(***************************************************************************)
\* the selection and the popover are as they were
SelectionAndPopoverKept ==
    /\ selectedFiles' = selectedFiles
    /\ realFileInput' = realFileInput
    /\ fileChips' = fileChips
    /\ popShow' = popShow
    /\ ariaHidden' = ariaHidden

\* C10 as claimed: whatever body a non-2xx response has, "Upload failed: "
\* and then that body, verbatim, is displayed, and the selection and the
\* popover are left as they were.
C10_FailedBodyVerbatim ==
    [][ \A i \in 1..Len(uploads), b \in UploadBodies :
            ((UploadJsonResolve(i, b) \/ UploadJsonReject(i, b)) /\ ~uploads[i].ok)
            => /\ uploadResult' = [display |-> "block", text |-> <<"Upload failed: ">> \o b]
               /\ SelectionAndPopoverKept
      ]_vars

\* C10 as amended: a non-2xx response whose body is the JSON text of a
\* document v displays "Upload failed: " and then v indented by two spaces,
\* which is the body itself only when the body was sent in that form; one
\* whose body is not JSON displays "Upload error: " and the parse error; the
\* selection and the popover are left as they were in both cases.
C10_FailedBodyReserialised ==
    [][ \A i \in 1..Len(uploads), b \in UploadBodies :
            ((UploadJsonResolve(i, b) \/ UploadJsonReject(i, b)) /\ ~uploads[i].ok)
            => /\ uploadResult'.display = "block"
               /\ \A v \in JsonDocs :
                      b \in TextsOf(v)
                      => uploadResult'.text = <<"Upload failed: ">> \o StringifyIndented(v)
               /\ (\A v \in JsonDocs : b \notin TextsOf(v))
                      => uploadResult'.text = <<"Upload error: ">> \o JsonError
               /\ SelectionAndPopoverKept
               /\ uploads' = RemoveAt(uploads, i)
      ]_vars

\* a failed upload whose body came without white space is shown indented,
\* with the file still selected and the popover still open
C10_Witness ==
    /\ uploads = <<>>
    /\ uploadResult =
           [display |-> "block",
            text |-> <<"Upload failed: ", "{", "\n", "  ", "\"", "detail", "\"", ":", " ",
                       "\"", "too large", "\"", "\n", "}">>]
    /\ selectedFiles = <<fileA>>
    /\ popShow

(***************************************************************************)
(* C11: one request for each user action, no retry                         *)
(***************************************************************************)
\* the requests of the three user actions that have not settled
InFlight == Len(queries) + Len(uploads) + Len(reindexes)

\* this step pushes one assistant message whose text begins with prefix
Reports(prefix) ==
    /\ Len(chat') = Len(chat) + 1
    /\ SubSeq(chat', 1, Len(chat)) = chat
    /\ chat'[Len(chat')].role = "assistant"
    /\ StartsWith(chat'[Len(chat')].text, prefix)

\* this step shows an upload result whose text begins with prefix
ShowsUpload(prefix) ==
    /\ uploadResult.display = "none"
    /\ uploadResult'.display = "block"
    /\ StartsWith(uploadResult'.text, prefix)

\* C11: a user action that passes its guard issues exactly one request, and
\* only a user action issues one; a request that fails is reported once, in
\* the step in which it settles, and that step ends it without sending
\* another: the next request waits for the next click or Enter.
C11_OneRequestNoRetry ==
    [][ /\ ((SendClick(MaxChat) \/ EnterKey(MaxChat)) /\ Truthy(Trim(questionValue)))
              => /\ Len(queries') = Len(queries) + 1
                 /\ queries'[Len(queries')].pc = "fetch"
                 /\ uploads' = uploads /\ reindexes' = reindexes
        /\ (UploadClick /\ Len(selectedFiles) > 0)
              => /\ Len(uploads') = Len(uploads) + 1
                 /\ uploads'[Len(uploads')].pc = "fetch"
                 /\ queries' = queries /\ reindexes' = reindexes
        /\ ReindexClick(MaxChat)
              => /\ Len(reindexes') = Len(reindexes) + 1
                 /\ reindexes'[Len(reindexes')].pc = "fetch"
                 /\ queries' = queries /\ uploads' = uploads
        /\ Len(queries') > Len(queries) => (SendClick(MaxChat) \/ EnterKey(MaxChat))
        /\ Len(uploads') > Len(uploads) => UploadClick
        /\ Len(reindexes') > Len(reindexes) => ReindexClick(MaxChat)
        /\ \A i \in 1..Len(queries) :
              ~(i <= Len(queries') /\ queries[i].pc = "json" /\ queries'[i].pc = "fetch")
        /\ (Reports("Error calling backend: ") \/ Reports("Error: "))
              <=> (/\ Len(queries') = Len(queries) - 1
                   /\ Len(chat_history') = Len(chat_history))
        /\ Len(queries') < Len(queries) => InFlight' = InFlight - 1
        /\ Reports("Reindex failed: ")
              => (Len(reindexes') = Len(reindexes) - 1 /\ InFlight' = InFlight - 1)
        /\ Len(reindexes') < Len(reindexes)
              => \E prefix \in {"Reindex failed: ", "Reindex response: "} :
                     \/ Reports(prefix)
                     \/ /\ Len(chat') = Len(chat) + 1
                        /\ chat'[Len(chat')].text = <<"Reindex completed successfully.">>
        /\ (ShowsUpload("Upload failed: ") \/ ShowsUpload("Upload error: "))
              => (Len(uploads') = Len(uploads) - 1 /\ InFlight' = InFlight - 1)
        /\ Len(uploads') < Len(uploads)
              => \E prefix \in {"Upload failed: ", "Upload error: ", "Indexing result:\n"} :
                     ShowsUpload(prefix)
      ]_vars

\* a question failed in transport and was reported once; no request is in
\* flight and the controls wait for the user
C11_Witness ==
    /\ Len(chat) = 3
    /\ chat[2].role = "user"
    /\ chat[3].text = <<"Error calling backend: ">> \o FetchError
    /\ InFlight = 0
    /\ ~sendDisabled /\ ~questionDisabled

(***************************************************************************)
(* C12: chat_history                                                       *)
(***************************************************************************)
\* the text of a message that reports a failed query
IsErrorText(text) ==
    StartsWith(text, "Error: ") \/ StartsWith(text, "Error calling backend: ")

\* C12: chat_history starts empty and only grows at its end; it grows, by
\* the pair of the question and the answer just displayed, exactly when a
\* query completes without a backend error or a failure, so it is the
\* sequence of those pairs in completion order; the chat_history in the body
\* of a request is chat_history as it stood when the request was issued,
\* and the pair of the question being asked is not in it: that pair lands
\* behind the last pair that was sent.
C12_HistoryOfAnsweredQueries ==
    /\ chat_history = <<>>
    /\ [][ LET last == chat'[Len(chat')]
           IN  /\ \/ chat_history' = chat_history
                  \/ /\ Len(chat_history') = Len(chat_history) + 1
                     /\ SubSeq(chat_history', 1, Len(chat_history)) = chat_history
               /\ Len(queries') < Len(queries)
                     => \E i \in 1..Len(queries) :
                           /\ queries' = RemoveAt(queries, i)
                           /\ Len(chat') = Len(chat) + 1
                           /\ last.role = "assistant"
                           /\ IF IsErrorText(last.text)
                              THEN chat_history' = chat_history
                              ELSE /\ chat_history' =
                                          Append(chat_history, <<queries[i].q, last.text>>)
                                   /\ chat_history' =
                                          Append(queries[i].payload, <<queries[i].q, last.text>>)
               /\ Len(queries') >= Len(queries) => chat_history' = chat_history
               /\ Len(queries') > Len(queries)
                     => /\ queries'[Len(queries')].payload = chat_history
                        /\ queries'[Len(queries')].q = Trim(questionValue)
               /\ \A i \in 1..Len(queries') : queries'[i].payload = chat_history'
         ]_vars

\* the second question is in flight and its body carries the pair of the
\* first, which was answered with the default answer
C12_Witness ==
    /\ Len(queries) = 1
    /\ queries[1].payload = <<<<<<"q">>, DefaultAnswer>>>>
    /\ chat_history = queries[1].payload
    /\ Len(chat) = 4
    /\ chat[4].role = "user"

(***************************************************************************)
(* C13: what a successful upload clears                                    *)
(***************************************************************************)
\* the files of a selection
FilesOf(sel) == {sel[k] : k \in 1..Len(sel)}

\* C13: when an upload succeeds, every file of the selection that is cleared
\* was in the form that request sent: no file chosen while the upload was in
\* flight is dropped from the selection without having been uploaded.
C13_ClearedWasSent ==
    [][ \A i \in 1..Len(uploads), b \in UploadBodies :
            (UploadJsonResolve(i, b) /\ uploads[i].ok)
            => /\ selectedFiles' = <<>>
               /\ FilesOf(selectedFiles) \subseteq FilesOf(uploads[i].form)
      ]_vars

(***************************************************************************)
(* C14: aria-hidden of the popover                                         *)
(***************************************************************************)
\* C14: aria-hidden is "false" exactly when the popover has the class
\* "show", after any toggles, outside clicks and upload completions.  Before
\* the first click of the attach button the popover is hidden and the
\* attribute is not "false", so only states after a click can disagree.
C14_AriaAgreesWithShow == (ariaHidden = "false") <=> popShow

(***************************************************************************)
(* C15: the order of the transcript                                        *)
(***************************************************************************)
\* the text of a message of the reindex handler
IsReindexText(text) ==
    \/ text = <<"Reindex completed successfully.">>
    \/ StartsWith(text, "Reindex response: ")
    \/ StartsWith(text, "Reindex failed: ")

\* a message of a turn: the user's question, or the answer or error to it
IsTurnMessage(m) == m.role = "user" \/ ~IsReindexText(m.text)

\* the transcript after the greeting without the reindex messages
Turns == SelectSeq(Tail(chat), IsTurnMessage)

\* the turns alternate, the user's message first, and the last turn lacks
\* its assistant message exactly while its request is in flight
TurnsInOrder ==
    /\ \A k \in 1..Len(Turns) :
           Turns[k].role = IF k % 2 = 1 THEN "user" ELSE "assistant"
    /\ Len(queries) = Len(Turns) % 2

\* C15: the transcript only grows at its end; a sendQuestion call with a
\* non-blank question appends the user's message in the same step, and the
\* step that settles the request appends exactly one assistant message, an
\* answer or an error; so the turns alternate and the user message of turn
\* k+1 never precedes the assistant message of turn k, whatever reindex
\* messages lie between them.
C15_TranscriptInTurnOrder ==
    /\ TurnsInOrder
    /\ [][ /\ TurnsInOrder'
           /\ \/ chat' = chat
              \/ /\ Len(chat') = Len(chat) + 1
                 /\ SubSeq(chat', 1, Len(chat)) = chat
           /\ ((SendClick(MaxChatLong) \/ EnterKey(MaxChatLong))
                   /\ Truthy(Trim(questionValue)))
                 => /\ chat' = Append(chat, [role |-> "user", text |-> Trim(questionValue),
                                             meta |-> NoMeta])
                    /\ Len(queries') = Len(queries) + 1
           /\ Len(queries') < Len(queries)
                 => /\ Len(chat') = Len(chat) + 1
                    /\ chat'[Len(chat')].role = "assistant"
                    /\ ~IsReindexText(chat'[Len(chat')].text)
         ]_vars

\* two turns after the greeting, the first answered and the second failed:
\* user, assistant, user, assistant
C15_Witness ==
    /\ Len(chat) = 5
    /\ chat[2].role = "user" /\ chat[4].role = "user"
    /\ chat[3].role = "assistant" /\ ~IsErrorText(chat[3].text)
    /\ chat[5].role = "assistant" /\ IsErrorText(chat[5].text)
    /\ queries = <<>>

(***************************************************************************)
(* C16: the guards of sendQuestion and of the upload click                 *)
(***************************************************************************)
\* C16: while the question field is empty or holds white space only, no
\* step issues a query, appends a user message or disables a control of the
\* question, and a click or Enter changes nothing of the chat; chat_history
\* changes only when a query that was already in flight settles.  While
\* nothing is selected, no step issues an upload or disables uploadNow, and
\* the upload click changes nothing of the upload.  Every /upload request
\* in flight carries at least one file.
C16_GuardedNoOps ==
    [][ /\ ~Truthy(Trim(questionValue))
              => /\ Len(queries') <= Len(queries)
                 /\ chat' # chat => chat'[Len(chat')].role = "assistant"
                 /\ sendDisabled' => sendDisabled
                 /\ questionDisabled' => questionDisabled
                 /\ Len(queries') = Len(queries) => chat_history' = chat_history
        /\ ((SendClick(MaxChat) \/ EnterKey(MaxChat)) /\ ~Truthy(Trim(questionValue)))
              => UNCHANGED chatVars
        /\ Len(selectedFiles) = 0
              => /\ Len(uploads') <= Len(uploads)
                 /\ uploadDisabled' => uploadDisabled
        /\ (UploadClick /\ Len(selectedFiles) = 0) => UNCHANGED uploadVars
        /\ \A i \in 1..Len(uploads') : Len(uploads'[i].form) >= 1
      ]_vars

\* the question field holds a blank and nothing was sent or disabled; the
\* selection is empty after an upload, and uploadNow is enabled with no
\* request in flight
C16_Witness ==
    /\ questionValue = <<" ">>
    /\ Len(chat) = 1 /\ queries = <<>> /\ chat_history = <<>>
    /\ ~sendDisabled /\ ~questionDisabled
    /\ selectedFiles = <<>>
    /\ StartsWith(uploadResult.text, "Indexing result:\n")
    /\ uploads = <<>> /\ ~uploadDisabled

====
